---- MODULE Spec2Model ----
(***************************************************************************)
(* FeedScraper (src/FeedScraper.py): a poller that fetches a list of feeds *)
(* conditionally, appends the entries it has not seen to a DataFrame and   *)
(* pickles the DataFrame after every feed that added something.            *)
(*                                                                         *)
(* A row of the DataFrame is a function from column names to cell values;  *)
(* a column missing from the function's domain is a NaN cell.  Every cell  *)
(* value is a string, sentiment scores and timestamps included, so that a  *)
(* score written into the id column compares unequal to every feed id, as  *)
(* a Python float compares unequal to every str.                           *)
(***************************************************************************)
EXTENDS Integers, Sequences, FiniteSets, TLC

\* Longest list of entries a feed response carries.
MaxEntries == 2
\* Most rows the DataFrame grows to (it is unbounded in the program).
MaxStore == 2

\* Marks a key that a parsed entry or a response header set does not hold.
Absent == "<absent>"
\* interval = None: no integer is None, and the model writes it as -1.
None == -1

(***************************************************************************)
(* Text: a str is the tuple of its characters where the code looks inside  *)
(* it (the regular expression search of _isKeywordInSenctence).            *)
(***************************************************************************)
Chars(s) ==
  CASE s = "Bitcoin up" -> <<"B", "i", "t", "c", "o", "i", "n", " ", "u", "p">>
    [] s = "said id"    -> <<"s", "a", "i", "d", " ", "i", "d">>
    [] s = "btc"        -> <<"b", "t", "c">>
    [] s = "bitcoin"    -> <<"b", "i", "t", "c", "o", "i", "n">>
    [] s = "ai"         -> <<"a", "i">>
    [] s = "id"         -> <<"i", "d">>
    [] s = "AI"         -> <<"A", "I">>
    [] s = "rate"       -> <<"r", "a", "t", "e">>
    [] s = "b.c"        -> <<"b", ".", "c">>
    [] s = "btc up"     -> <<"b", "t", "c", " ", "u", "p">>
    [] s = "ai_fund"    -> <<"a", "i", "_", "f", "u", "n", "d">>
    [] s = "Rate hikes loom" ->
         <<"R", "a", "t", "e", " ", "h", "i", "k", "e", "s", " ",
           "l", "o", "o", "m">>
    [] s = "said an official" ->
         <<"s", "a", "i", "d", " ", "a", "n", " ", "o", "f", "f", "i", "c",
           "i", "a", "l">>

UpperCase ==
  <<"A", "B", "C", "D", "E", "F", "G", "H", "I", "J", "K", "L", "M",
    "N", "O", "P", "Q", "R", "S", "T", "U", "V", "W", "X", "Y", "Z">>

LowerCase ==
  <<"a", "b", "c", "d", "e", "f", "g", "h", "i", "j", "k", "l", "m",
    "n", "o", "p", "q", "r", "s", "t", "u", "v", "w", "x", "y", "z">>

Digits == {"0", "1", "2", "3", "4", "5", "6", "7", "8", "9"}

Range(f) == {f[x] : x \in DOMAIN f}

\* re.IGNORECASE: characters are compared case-folded.
Fold(c) ==
  IF \E i \in DOMAIN UpperCase : UpperCase[i] = c
  THEN LowerCase[CHOOSE i \in DOMAIN UpperCase : UpperCase[i] = c]
  ELSE c

\* \w of the regular expression: letters, digits and the underscore.
IsWordChar(c) == Fold(c) \in Range(LowerCase) \/ c \in Digits \/ c = "_"

\* Is the character at position i of s a word character (no character
\* outside the string is).
WordAt(s, i) == i \in DOMAIN s /\ IsWordChar(s[i])

\* \b between positions i and i+1 of s.
Boundary(s, i) == WordAt(s, i) # WordAt(s, i + 1)

\* One character of the pattern against one character of the sentence: the
\* keyword is put into the pattern unescaped, so that its "." stands for
\* any character (the sentences hold no newline).
MatchesChar(p, c) == p = "." \/ Fold(p) = Fold(c)

\* re.search(fr"\b{keyword}\b", sentence, re.IGNORECASE) != None, for a
\* keyword whose only regular expression metacharacter is a "." inside it.
_isKeywordInSenctence(sentence, keyword) ==
  LET s == Chars(sentence)
      k == Chars(keyword)
  IN \E o \in 0..(Len(s) - Len(k)) :
        /\ Boundary(s, o)
        /\ \A j \in 1..Len(k) : MatchesChar(k[j], s[o + j])
        /\ Boundary(s, o + Len(k))

(***************************************************************************)
(* Configuration and inputs.                                               *)
(***************************************************************************)
\* The keywords.json files considered: keyword -> list of aliases.
KeywordIndexes ==
  { [k \in {"btc", "ai"} |-> IF k = "btc" THEN <<"bitcoin">> ELSE <<>>],
    [k \in {"id"} |-> <<>>] }

\* The lines of the feed list after _initFeeds appended the missing "/".
FeedUrls == <<"u1/", "u2/">>

\* Feed.__init__
Feed(url) == [url |-> url, etag |-> "", modified |-> ""]

\* _initFeeds
_initFeeds == [i \in DOMAIN FeedUrls |-> Feed(FeedUrls[i])]

\* The entries feedparser yields.  published_parsed "overflow" is a
\* struct_time that time.mktime rejects with OverflowError.
FeedEntries ==
  { [id |-> "a", title |-> "Bitcoin up", published_parsed |-> "p1",
     author |-> "ann", link |-> "l1"],
    [id |-> "b", title |-> "said id", published_parsed |-> "p2",
     author |-> Absent, link |-> Absent],
    [id |-> "c", title |-> "said id", published_parsed |-> Absent,
     author |-> Absent, link |-> Absent],
    [id |-> "c", title |-> "said id", published_parsed |-> "overflow",
     author |-> Absent, link |-> Absent] }

RECURSIVE SeqsUpTo(_, _)
SeqsUpTo(S, n) ==
  IF n = 0 THEN {<<>>}
  ELSE LET shorter == SeqsUpTo(S, n - 1)
       IN shorter \cup {Append(q, x) : q \in {p \in shorter : Len(p) = n - 1}, x \in S}

\* d.entries of the parsed bodies.
Bodies == SeqsUpTo(FeedEntries, MaxEntries)

\* What requests.get does: raise (no response), or return a response with
\* a status code and headers.  The server of the first feed sends cache
\* validators with some of its responses, the server of the second feed
\* sends none.
Statuses == {200, 304, 500}
EtagHeaders(url) == IF url = "u1/" THEN {Absent, "e1", "e2"} ELSE {Absent}
ModifiedHeaders(url) == IF url = "u1/" THEN {Absent, "m1"} ELSE {Absent}
\* r before requests.get returned and after the response was handled
NoResponse == [status_code |-> 0, etag |-> Absent, modified |-> Absent]

\* An argument of scrape(interval): None, an int or a str, the str as the
\* tuple of its characters.
NoneArg == [type |-> "NoneType", int |-> 0, str |-> <<>>]
IntArg(n) == [type |-> "int", int |-> n, str |-> <<>>]
StrArg(chars) == [type |-> "str", int |-> 0, str |-> chars]

\* The interval arguments scrape is called with: None, ten minutes as an
\* int and the '10m' of line 205.
Intervals == {NoneArg, IntArg(600), StrArg(<<"1", "0", "m">>)}

\* More interval strings: the other units, and strings that are no
\* interval.
WideIntervals ==
  Intervals \cup
  { StrArg(<<"6", "0", "0", "s">>), StrArg(<<"1", "h">>), StrArg(<<"1", "d">>),
    StrArg(<<>>), StrArg(<<"m">>), StrArg(<<"1", "0">>), StrArg(<<"1", "0", "x">>),
    StrArg(<<"x", "m">>), StrArg(<<"1", ".", "5", "h">>), StrArg(<<"1", "0", "M">>) }

\* time.time() - last_scape_start at line 192, in seconds: a pass shorter
\* than the interval, one as long and one longer.
Elapsed == {50, 600, 700}

VARIABLES
  keywords,    \* self.keywords
  feeds,       \* self.feeds: sequence of Feed objects
  df,          \* self.df: sequence of rows
  update_db,   \* self.update_db
  disk,        \* the file at db_path: [kind, rows]
  interval,    \* scrape's interval after _calc_interval
  pc,          \* where the process is
  idx,         \* index in self.feeds of the feed of the for loop
  pending,     \* entries of d.entries still to be processed
  r,           \* the response requests.get returned, until it is handled
  fetched,     \* the indexes of the feeds requested so far in this pass
  failures,    \* the indexes of the feeds this pass logged an error for
  origin,      \* for each row of df, the feed url and entry id it came from
  nLoaded,     \* rows read from the pickle by this process
  arg,         \* scrape's parameter interval until line 176 rebinds it
  elapsed,     \* seconds the pass took when line 192 measured it
  time_delay   \* scrape's time_delay, the seconds slept after the pass

vars ==
  <<keywords, feeds, df, update_db, disk, interval, pc, idx, pending, r,
    fetched, failures, origin, nLoaded, arg, elapsed, time_delay>>

NoFile == [kind |-> "none", rows |-> <<>>]
Corrupt == [kind |-> "corrupt", rows |-> <<>>]
Pickled(d) == [kind |-> "ok", rows |-> d]

(***************************************************************************)
(* The collaborators, as the deterministic functions of their argument     *)
(* that they are.                                                          *)
(***************************************************************************)
\* self.sia.polarity_scores(title)['compound']
polarity_scores(title) ==
  CASE title = "Bitcoin up" -> "0.4"
    [] title = "said id"    -> "0.0"
    [] title = "btc up"     -> "0.3"
    [] title = "ai_fund"    -> "0.0"
    [] title = "Rate hikes loom" -> "-0.2"
    [] title = "said an official" -> "0.0"

\* time.mktime(published_parsed) raises OverflowError
MktimeRaises(published_parsed) == published_parsed = "overflow"

\* pd.Timestamp(time.mktime(published_parsed), unit='s')
Timestamp(published_parsed) ==
  CASE published_parsed = "p1" -> "t1"
    [] published_parsed = "p2" -> "t2"

(***************************************************************************)
(* _processFeedEntry and the functions it calls.                           *)
(***************************************************************************)
NoCells == [k \in {} |-> ""]

\* _findCoinsInSentence: the keywords that occur in the sentence, by
\* themselves or by one of their tags.
_findCoinsInSentence(sentence) ==
  { keyword \in DOMAIN keywords :
      \/ _isKeywordInSenctence(sentence, keyword)
      \/ \E t \in DOMAIN keywords[keyword] :
            _isKeywordInSenctence(sentence, keywords[keyword][t]) }

\* ((self.df['source'] == feed.url) & (self.df['id'] == entry.id)).any()
InDatabase(d, url, id) ==
  \E i \in DOMAIN d : d[i]["source"] = url /\ d[i]["id"] = id

\* The dict data of lines 112-126: later assignments overwrite earlier
\* ones, so the keyword columns are written last.
Data(url, entry) ==
  LET base == [source |-> url, id |-> entry.id, title |-> entry.title,
               published |-> Timestamp(entry.published_parsed)]
      author == IF entry.author # Absent THEN "author" :> entry.author ELSE NoCells
      link == IF entry.link # Absent THEN "link" :> entry.link ELSE NoCells
      sentiment == polarity_scores(entry.title)
      tags == [keyword \in _findCoinsInSentence(entry.title) |-> sentiment]
  IN tags @@ link @@ author @@ base

\* Mutant of Concat: the new row is put in front of the rows.
ConcatInFront(d, row) == <<row>> \o d

\* pd.concat([self.df, df_new], ignore_index=True)
Concat(d, row) == Append(d, row)

\* The three mandatory keys of an entry.
HasMandatory(entry) ==
  /\ entry.title # Absent
  /\ entry.published_parsed # Absent
  /\ entry.id # Absent

\* Does _processFeedEntry get past the checks to build a row.
IsNew(d, url, entry) == HasMandatory(entry) /\ ~InDatabase(d, url, entry.id)

\* Mutant of _processFeedEntry: an entry without a mandatory key raises.
_processFeedEntryStrict(d, url, entry) ==
  IF ~HasMandatory(entry) \/ (~InDatabase(d, url, entry.id)
                               /\ MktimeRaises(entry.published_parsed))
  THEN [df |-> d, raised |-> TRUE, appended |-> FALSE]
  ELSE IF InDatabase(d, url, entry.id)
  THEN [df |-> d, raised |-> FALSE, appended |-> FALSE]
  ELSE [df |-> Concat(d, Data(url, entry)), raised |-> FALSE, appended |-> TRUE]

\* _processFeedEntry: the DataFrame it leaves, whether it raised, whether
\* it appended.
_processFeedEntry(d, url, entry) ==
  IF ~IsNew(d, url, entry)
  THEN [df |-> d, raised |-> FALSE, appended |-> FALSE]
  ELSE IF MktimeRaises(entry.published_parsed)
  THEN [df |-> d, raised |-> TRUE, appended |-> FALSE]
  ELSE [df |-> Concat(d, Data(url, entry)), raised |-> FALSE, appended |-> TRUE]

\* The for loop of lines 97-98 inside the try of _fetchAndProcessFeed: the
\* DataFrame after the entries, the first exception ending the loop.
RECURSIVE ProcessEntries(_, _, _)
ProcessEntries(d, url, entries) ==
  IF entries = <<>> THEN d
  ELSE LET res == _processFeedEntry(d, url, Head(entries))
       IN IF res.raised THEN res.df ELSE ProcessEntries(res.df, url, Tail(entries))

(***************************************************************************)
(* _fetchAndProcessFeed: the request.                                      *)
(***************************************************************************)
\* The request headers of lines 73-77.
RequestHeaders(feed) ==
  (IF feed.etag # "" THEN "ETag" :> feed.etag ELSE NoCells)
  @@ (IF feed.modified # "" THEN "If-Modified-Since" :> feed.modified ELSE NoCells)

\* Mutant of UpdateValidators: a validator whose header is missing is
\* emptied.
UpdateValidatorsClearing(feed, etag, modified) ==
  [feed EXCEPT !.etag = IF etag # Absent THEN etag ELSE "",
               !.modified = IF modified # Absent THEN modified ELSE ""]

\* Mutant of UpdateValidators: a validator once set is never replaced.
UpdateValidatorsOnce(feed, etag, modified) ==
  [feed EXCEPT !.etag = IF etag # Absent /\ @ = "" THEN etag ELSE @,
               !.modified = IF modified # Absent /\ @ = "" THEN modified ELSE @]

\* Lines 82-87: the validators after a response with these headers.
UpdateValidators(feed, etag, modified) ==
  [feed EXCEPT !.etag = IF etag # Absent THEN etag ELSE @,
               !.modified = IF modified # Absent THEN modified ELSE @]

\* Lines 89-92: is the status code logged as an error.
IsErrorStatus(code) == code # 304 /\ code # 200

\* Mutant of AfterException: the exception leaves scrape.
AfterExceptionRaises == "failed"

\* Lines 99-100: the except clause logs and returns, so that scrape goes on
\* with the flush of this feed.
AfterException == "flush"

\* Mutant of DirtyAfterAppend: the append forgets the flag.
DirtyAfterAppendUnset == FALSE

\* Line 19, 131, 186: the values update_db is set to.
DirtyAfterInit == FALSE
DirtyAfterAppend == TRUE
DirtyAfterWrite == FALSE

\* Mutant of AfterWriteError: the exception is swallowed and the flush is
\* left to be done.
AfterWriteErrorSwallowed == "flush"

\* Lines 182-186 stand in no try: an exception of to_pickle or to_csv
\* leaves scrape.
AfterWriteError == "failed"

\* Mutant of AfterLoadError: the file that cannot be parsed is taken for
\* no file.
AfterLoadErrorIgnored == "ready"

\* Line 27 stands in no try: an exception of pd.read_pickle leaves
\* FeedScraper.__init__ and no scraper exists.
AfterLoadError == "fatal"

(***************************************************************************)
(* The state machine.                                                      *)
(***************************************************************************)
Init ==
  /\ keywords \in KeywordIndexes
  /\ feeds = _initFeeds
  /\ df = <<>>
  /\ update_db = DirtyAfterInit
  /\ disk = NoFile
  /\ interval = None
  /\ pc = "ready"
  /\ idx = 1
  /\ pending = <<>>
  /\ r = NoResponse
  /\ fetched = <<>>
  /\ failures = {}
  /\ origin = <<>>
  /\ nLoaded = 0
  /\ arg = NoneArg
  /\ elapsed = 0
  /\ time_delay = 0

\* _initDataFrame: the DataFrame read from the file, or the empty one.
_initDataFrame == IF disk.kind = "ok" THEN disk.rows ELSE <<>>

\* The rows a new process would read back from the file.
PersistedRows == _initDataFrame

\* A new process is constructed: FeedScraper.__init__.  The process before
\* it may have stopped anywhere.  pd.read_pickle raises on a file it cannot
\* parse, and no scraper exists then.
__init__ ==
  /\ df' = _initDataFrame
  /\ origin' = SubSeq(origin, 1, Len(_initDataFrame))
  /\ nLoaded' = Len(_initDataFrame)
  /\ feeds' = _initFeeds
  /\ update_db' = DirtyAfterInit
  /\ pc' = IF disk.kind = "corrupt" THEN AfterLoadError ELSE "ready"
  /\ idx' = 1
  /\ pending' = <<>>
  /\ r' = NoResponse
  /\ fetched' = <<>>
  /\ failures' = {}
  /\ interval' = None
  /\ elapsed' = 0
  /\ time_delay' = 0
  /\ arg' = NoneArg
  /\ UNCHANGED <<keywords, disk>>

\* Lines 161-162.
valid_units == <<"s", "m", "h", "d">>
conversions == <<1, 60, 3600, 86400>>

DigitChars == <<"0", "1", "2", "3", "4", "5", "6", "7", "8", "9">>
DigitValue(c) == (CHOOSE i \in DOMAIN DigitChars : DigitChars[i] = c) - 1

RECURSIVE DecimalValue(_)
DecimalValue(ds) ==
  IF ds = <<>> THEN 0
  ELSE DecimalValue(SubSeq(ds, 1, Len(ds) - 1)) * 10 + DigitValue(ds[Len(ds)])

\* Does int(value_str) accept the string: an optional sign and digits
\* (the blanks and underscores int() also accepts are left out).
IsIntLiteral(cs) ==
  LET ds == IF cs # <<>> /\ cs[1] \in {"+", "-"} THEN Tail(cs) ELSE cs
  IN ds # <<>> /\ \A i \in DOMAIN ds : ds[i] \in Digits

\* int(value_str)
IntValue(cs) ==
  IF cs[1] = "-" THEN 0 - DecimalValue(Tail(cs))
  ELSE IF cs[1] = "+" THEN DecimalValue(Tail(cs))
  ELSE DecimalValue(cs)

\* _calc_interval: the exception it raises ("" for none) and the value it
\* returns.  interval[-1] of the empty string raises IndexError before
\* the unit is looked at.
_calc_interval(a) ==
  IF a.type = "NoneType" THEN [raised |-> "", value |-> None]
  ELSE IF a.type = "int" THEN [raised |-> "", value |-> a.int]
  ELSE IF a.str = <<>> THEN [raised |-> "IndexError", value |-> None]
  ELSE LET unit == a.str[Len(a.str)]
           value_str == SubSeq(a.str, 1, Len(a.str) - 1)
       IN IF unit \notin Range(valid_units)
          THEN [raised |-> "ValueError", value |-> None]
          ELSE IF ~IsIntLiteral(value_str)
          THEN [raised |-> "ValueError", value |-> None]
          ELSE [raised |-> "",
                value |-> IntValue(value_str)
                            * conversions[CHOOSE i \in DOMAIN valid_units :
                                             valid_units[i] = unit]]

\* scrape(interval) is called with an argument out of args.
scrapeWith(args) ==
  /\ pc = "ready"
  /\ arg' \in args
  /\ pc' = "calc"
  /\ UNCHANGED <<keywords, feeds, df, update_db, disk, interval, idx, pending, r,
                 fetched, failures, origin, nLoaded, elapsed, time_delay>>

\* Line 176, interval = self._calc_interval(interval), up to the first feed
\* of the first pass: an exception of _calc_interval leaves scrape with
\* the parameter as it was, and pc is the name of the exception.
CalcInterval ==
  /\ pc = "calc"
  /\ LET res == _calc_interval(arg)
     IN IF res.raised # ""
        THEN pc' = res.raised /\ UNCHANGED <<interval, arg>>
        ELSE pc' = "fetch" /\ interval' = res.value /\ arg' = NoneArg
  /\ idx' = 1
  /\ r' = NoResponse
  /\ fetched' = <<>>
  /\ failures' = {}
  /\ UNCHANGED <<keywords, feeds, df, update_db, disk, pending, origin, nLoaded,
                 elapsed, time_delay>>

scrape == scrapeWith(Intervals)

\* scrape called with any of the interval strings.
scrapeAny == scrapeWith(WideIntervals)

\* requests.get raised (connection error, timeout after 10 s): the except
\* clause, nothing else done.
FetchRaises ==
  /\ pc = "fetch"
  /\ fetched' = Append(fetched, idx)
  /\ failures' = failures \cup {idx}
  /\ pc' = AfterException
  /\ UNCHANGED <<keywords, arg, feeds, df, update_db, disk, interval, idx, pending, r,
                 origin, nLoaded,
                 elapsed, time_delay>>

\* requests.get returned a response (line 80).
FetchReturns ==
  /\ pc = "fetch"
  /\ \E code \in Statuses, etag \in EtagHeaders(feeds[idx].url),
        modified \in ModifiedHeaders(feeds[idx].url) :
        r' = [status_code |-> code, etag |-> etag, modified |-> modified]
  /\ fetched' = Append(fetched, idx)
  /\ pc' = "response"
  /\ UNCHANGED <<keywords, arg, feeds, df, update_db, disk, interval, idx, pending,
                 failures, origin, nLoaded,
                 elapsed, time_delay>>

\* Lines 82-96: the validators are taken from the headers, then the status
\* code decides; on 200 feedparser parses the content into d.entries.
HandleResponse ==
  /\ pc = "response"
  /\ feeds' = [feeds EXCEPT ![idx] = UpdateValidators(@, r.etag, r.modified)]
  /\ failures' = IF IsErrorStatus(r.status_code) THEN failures \cup {idx} ELSE failures
  /\ \E body \in (IF r.status_code = 200 THEN Bodies ELSE {<<>>}) :
        /\ pending' = body
        /\ pc' = IF body # <<>> THEN "entries" ELSE "flush"
  /\ r' = NoResponse
  /\ UNCHANGED <<keywords, arg, df, update_db, disk, interval, idx, fetched, origin,
                 nLoaded,
                 elapsed, time_delay>>

\* One turn of the loop over d.entries: _processFeedEntry on the next
\* entry; an exception ends the loop in the except clause.
ProcessEntry ==
  /\ pc = "entries"
  /\ LET entry == Head(pending)
         url == feeds[idx].url
         res == _processFeedEntry(df, url, entry)
     IN /\ res.appended => Len(df) < MaxStore
        /\ df' = res.df
        /\ origin' = IF res.appended
                     THEN Append(origin, [url |-> url, id |-> entry.id])
                     ELSE origin
        /\ update_db' = IF res.appended THEN DirtyAfterAppend ELSE update_db
        /\ pending' = IF res.raised THEN <<>> ELSE Tail(pending)
        /\ failures' = IF res.raised THEN failures \cup {idx} ELSE failures
        /\ pc' = IF res.raised THEN AfterException
                 ELSE IF Tail(pending) = <<>> THEN "flush" ELSE "entries"
  /\ UNCHANGED <<keywords, arg, feeds, disk, interval, idx, r, fetched, nLoaded,
                 elapsed, time_delay>>

\* Mutant of AfterPass: scrape sleeps after every pass.
AfterPassSleeps(i) == "sleep"

\* Lines 188-189: after the pass scrape returns when interval is None and
\* goes on to sleep otherwise.
AfterPass(i) == IF i = None THEN "done" ELSE "sleep"

Max(a, b) == IF a >= b THEN a ELSE b

\* Mutant of Delay: the time the pass took is not taken off.
DelayWholeInterval(i, e) == i

\* Line 192: time_delay = max(0, interval - (time.time() - last_scape_start))
Delay(i, e) == Max(0, i - e)

\* The for loop of scrape moves to the next feed; after the last feed the
\* pass ends: scrape returns when interval is None and sleeps otherwise.
NextFeed ==
  IF idx < Len(feeds)
  THEN idx' = idx + 1 /\ pc' = "fetch" /\ UNCHANGED <<elapsed, time_delay>>
  ELSE /\ idx' = idx
       /\ pc' = AfterPass(interval)
       /\ IF interval = None
          THEN UNCHANGED <<elapsed, time_delay>>
          ELSE \E e \in Elapsed :
                  elapsed' = e /\ time_delay' = Delay(interval, e)

\* Lines 182-186 with update_db False: nothing is written.
FlushClean ==
  /\ pc = "flush"
  /\ ~update_db
  /\ NextFeed
  /\ UNCHANGED <<keywords, arg, feeds, df, update_db, disk, interval, pending,
                 r, fetched, failures, origin, nLoaded>>

\* Lines 182-186 with update_db True, to_pickle and to_csv succeeding.
FlushWrites ==
  /\ pc = "flush"
  /\ update_db
  /\ disk' = Pickled(df)
  /\ update_db' = DirtyAfterWrite
  /\ NextFeed
  /\ UNCHANGED <<keywords, arg, feeds, df, interval, pending, r, fetched, failures,
                 origin, nLoaded>>

\* Lines 182-186 with update_db True and a write raising: the exception
\* leaves scrape.  to_pickle opens the file for writing, which empties it,
\* and then writes it: a failure to open leaves the file as it was, a
\* failure while writing leaves a file that cannot be parsed, and a failure
\* of to_csv comes after the pickle was written.
FlushFails ==
  /\ pc = "flush"
  /\ update_db
  /\ disk' \in {disk, Corrupt, Pickled(df)}
  /\ pc' = AfterWriteError
  /\ UNCHANGED <<keywords, arg, feeds, df, update_db, interval, idx, pending, r,
                 fetched, failures, origin, nLoaded,
                 elapsed, time_delay>>

\* time.sleep(time_delay) returns and the next pass starts.
Sleep ==
  /\ pc = "sleep"
  /\ pc' = "fetch"
  /\ idx' = 1
  /\ r' = NoResponse
  /\ fetched' = <<>>
  /\ failures' = {}
  /\ elapsed' = 0
  /\ time_delay' = 0
  /\ UNCHANGED <<keywords, arg, feeds, df, update_db, disk, interval, pending, origin,
                 nLoaded>>

Next ==
  \/ __init__
  \/ scrape
  \/ CalcInterval
  \/ FetchRaises
  \/ FetchReturns
  \/ HandleResponse
  \/ ProcessEntry
  \/ FlushClean
  \/ FlushWrites
  \/ FlushFails
  \/ Sleep

Spec == Init /\ [][Next]_vars

\* The same program called with any of the interval strings.
NextAny ==
  \/ __init__
  \/ scrapeAny
  \/ CalcInterval
  \/ FetchRaises
  \/ FetchReturns
  \/ HandleResponse
  \/ ProcessEntry
  \/ FlushClean
  \/ FlushWrites
  \/ FlushFails
  \/ Sleep

SpecAny == Init /\ [][NextAny]_vars

(***************************************************************************)
(* The loop over d.entries on its own: the process stands at the first     *)
(* entry of a response of the first feed, the entries being drawn from     *)
(* every shape feedparser yields (each mandatory key missing, an author or *)
(* a link) and the keyword index from more keywords.json files.            *)
(***************************************************************************)
WideIndexes ==
  KeywordIndexes \cup { [k \in {"AI", "rate"} |-> <<>>], [k \in {"b.c"} |-> <<>>] }

WideTitles ==
  {"Bitcoin up", "btc up", "ai_fund", "Rate hikes loom", "said an official"}

WideEntries ==
  { [id |-> "a", title |-> t, published_parsed |-> "p1",
     author |-> "ann", link |-> Absent] : t \in WideTitles }
  \cup
  { [id |-> "b", title |-> t, published_parsed |-> "p2",
     author |-> Absent, link |-> "l1"] : t \in WideTitles }
  \cup
  { [id |-> Absent, title |-> "btc up", published_parsed |-> "p1",
     author |-> "ann", link |-> "l1"],
    [id |-> "a", title |-> Absent, published_parsed |-> "p1",
     author |-> "ann", link |-> "l1"],
    [id |-> "b", title |-> "btc up", published_parsed |-> Absent,
     author |-> "ann", link |-> "l1"],
    [id |-> Absent, title |-> Absent, published_parsed |-> Absent,
     author |-> Absent, link |-> Absent] }

InitEntries ==
  /\ keywords \in WideIndexes
  /\ feeds = _initFeeds
  /\ df = <<>>
  /\ update_db = DirtyAfterInit
  /\ disk = NoFile
  /\ interval = None
  /\ pc = "entries"
  /\ idx = 1
  /\ pending \in SeqsUpTo(WideEntries, MaxEntries) \ {<<>>}
  /\ r = NoResponse
  /\ fetched = <<1>>
  /\ failures = {}
  /\ origin = <<>>
  /\ nLoaded = 0
  /\ arg = NoneArg
  /\ elapsed = 0
  /\ time_delay = 0

SpecEntries == InitEntries /\ [][ProcessEntry]_vars

(***************************************************************************)
(* A pass as a function: scrape's for loop with every feed answering 200.  *)
(***************************************************************************)
\* The DataFrame after the feeds from the i-th on were fetched, feed k
\* answering with the entries bodies[k].
RECURSIVE PassOver(_, _, _)
PassOver(d, bodies, i) ==
  IF i > Len(feeds) THEN d
  ELSE PassOver(ProcessEntries(d, feeds[i].url, bodies[i]), bodies, i + 1)

IsPrefix(s, t) == Len(s) <= Len(t) /\ SubSeq(t, 1, Len(s)) = s

\* A step that is the construction of a new process.
IsRestart == pc' \in {"ready", "fatal"}

\* A step in which the pass logs an error for the feed of the for loop.
IsFeedFailure == idx \in failures' /\ idx \notin failures

(***************************************************************************)
(* The claims.                                                             *)
(***************************************************************************)
\* C1: no two rows of the store share both source and id, in every
\* reachable state.
C1_UniqueSourceId ==
  \A i, j \in DOMAIN df :
     (df[i]["source"] = df[j]["source"] /\ df[i]["id"] = df[j]["id"]) => i = j

\* C2: idempotence: between passes, whatever entries the feeds answer with,
\* a second pass over the same answers leaves the store as the first pass
\* left it.
C2_SecondPassAddsNothing ==
  pc \in {"ready", "sleep"} =>
    \A bodies \in [DOMAIN feeds -> Bodies] :
       LET once == PassOver(df, bodies, 1)
       IN PassOver(once, bodies, 1) = once

\* C3: the store is append-only and its rows immutable: every step of a
\* process leaves the rows it found in the store where they were, cell for
\* cell.
C3_AppendOnly == [][~IsRestart => IsPrefix(df, df')]_vars

\* C3 witness: two rows in the store of a pass that also logged a failure.
C3_Witness == Len(df) = 2 /\ failures # {} /\ pc = "flush" /\ update_db

\* C4: deduplication across restarts: a new process holds exactly the
\* persisted rows, and it never appends the entry (feed url, entry id) that
\* one of the rows it loaded was made from.
C4_DedupAcrossRestart ==
  [][ /\ pc' = "ready" => df' = PersistedRows
      /\ (pc = "entries" /\ Len(df') > Len(df)) =>
            \A i \in 1..nLoaded : origin[i] # origin'[Len(origin')] ]_vars

\* C5: handling a 304 response adds no row and processes no entry, and a
\* validator whose header the response lacks keeps its value.
C5_NotModified ==
  [][ (pc = "response" /\ r.status_code = 304 /\ ~IsRestart) =>
        /\ df' = df
        /\ pending' = <<>>
        /\ pc' = "flush"
        /\ r.etag = Absent => feeds'[idx].etag = feeds[idx].etag
        /\ r.modified = Absent => feeds'[idx].modified = feeds[idx].modified ]_vars

\* C5 witness: a 304 without validator headers came back for a feed that
\* holds both validators, the store holding rows.
C5_Witness ==
  /\ pc = "response"
  /\ r = [status_code |-> 304, etag |-> Absent, modified |-> Absent]
  /\ feeds[idx].etag # ""
  /\ feeds[idx].modified # ""
  /\ df # <<>>

\* C6: a step in which a feed's fetch fails leaves the feed's validators,
\* and with them the headers of its next request, as they were.
C6_FailureKeepsValidators ==
  [][ IsFeedFailure =>
        /\ feeds'[idx] = feeds[idx]
        /\ RequestHeaders(feeds'[idx]) = RequestHeaders(feeds[idx]) ]_vars

\* C7: feed isolation: a failure of a feed's fetch leads to the flush of
\* that feed, the flush leads to the fetch of the next feed whether or not
\* the feed failed, and at the end of a pass every feed was requested, in
\* order, and every row appended is persisted.
C7_FeedIsolation ==
  /\ [][IsFeedFailure => pc' = "flush" /\ idx' = idx /\ df' = df]_vars
  /\ [][ (pc = "flush" /\ idx < Len(feeds) /\ pc' \notin {"failed", "ready", "fatal"}) =>
            pc' = "fetch" /\ idx' = idx + 1 ]_vars
  /\ [](pc \in {"done", "sleep"} =>
          /\ fetched = [i \in DOMAIN feeds |-> i]
          /\ ~update_db
          /\ PersistedRows = df)

\* C7 witness: a pass ended in which the first feed failed and a row of the
\* second feed was appended and persisted.
C7_Witness ==
  /\ pc = "done"
  /\ failures = {1}
  /\ Len(df) > nLoaded
  /\ origin[Len(df)].url = feeds[2].url
  /\ PersistedRows = df

\* C8: while a process runs, update_db is true exactly when the store holds
\* rows that the persisted store does not.
C8_DirtyIffUnsaved ==
  pc \notin {"failed", "fatal"} => (update_db <=> df # PersistedRows)

\* C8 witness: a row appended to a store that was persisted before.
C8_Witness == update_db /\ PersistedRows # <<>> /\ Len(df) > Len(PersistedRows)

\* C9: when the pipeline moves on to the next feed or ends the pass the
\* persisted store holds the rows of the store, and at any point the rows
\* a crash would lose are rows of the feed being processed.
C9_LossBoundedByFeed ==
  /\ pc \in {"fetch", "sleep", "done"} => PersistedRows = df
  /\ pc # "fatal" =>
       /\ Len(PersistedRows) <= Len(df)
       /\ \A k \in DOMAIN df :
             k > Len(PersistedRows) => origin[k].url = feeds[idx].url

\* C10: the flush writes nothing when update_db is false; when it is true,
\* either the write succeeds, the file holds the store and update_db is
\* cleared, or the write fails, update_db stays set and the exception
\* leaves scrape.
C10_FlushContract ==
  [][ (pc = "flush" /\ ~IsRestart) =>
        IF ~update_db
        THEN disk' = disk /\ ~update_db' /\ pc' # "failed"
        ELSE \/ pc' = "failed" /\ update_db'
             \/ pc' # "failed" /\ ~update_db' /\ disk' = Pickled(df) ]_vars

\* C10 witness: a write failed: the process left scrape with update_db set.
C10_Witness == pc = "failed" /\ update_db /\ df # PersistedRows

\* C11: an entry that lacks its title, its publication time or its id adds
\* no row, whether or not it was seen before, and does not end the loop:
\* the entries after it are processed as if it had not been in the
\* response.  A row holds the entry's author, and its link, exactly when
\* the entry has one (and no matched keyword has the column's name).
C11_MandatoryFields ==
  /\ [](pc = "entries" =>
          ProcessEntries(df, feeds[idx].url, pending)
            = ProcessEntries(df, feeds[idx].url, SelectSeq(pending, HasMandatory)))
  /\ [][ (pc = "entries" /\ ~IsRestart) =>
          LET entry == Head(pending)
              matched == _findCoinsInSentence(entry.title)
              row == df'[Len(df')]
          IN /\ ~HasMandatory(entry) =>
                  /\ df' = df
                  /\ failures' = failures
                  /\ pending' = Tail(pending)
                  /\ pc' = IF Tail(pending) = <<>> THEN "flush" ELSE "entries"
             /\ Len(df') > Len(df) =>
                  /\ HasMandatory(entry)
                  /\ \A c \in {"author", "link"} \ matched :
                        IF entry[c] = Absent THEN c \notin DOMAIN row
                        ELSE c \in DOMAIN row /\ row[c] = entry[c] ]_vars

\* C11 witness: an entry without author was appended and the next entry of
\* the response lacks a mandatory key.
C11_Witness ==
  /\ pc = "entries"
  /\ Len(df) = 1
  /\ "author" \notin DOMAIN df[1]
  /\ "link" \in DOMAIN df[1]
  /\ ~HasMandatory(Head(pending))

\* C12: handling a 200 response makes each validator of the feed the value
\* of the response's header when the response has the header and leaves it
\* as it was when not, the other feeds keeping theirs; and no step of a
\* running process empties a validator that was set.
C12_ValidatorsOn200 ==
  /\ [][ (pc = "response" /\ r.status_code = 200 /\ ~IsRestart) =>
          /\ feeds'[idx].etag = IF r.etag # Absent THEN r.etag ELSE feeds[idx].etag
          /\ feeds'[idx].modified =
                IF r.modified # Absent THEN r.modified ELSE feeds[idx].modified
          /\ feeds'[idx].url = feeds[idx].url
          /\ \A i \in DOMAIN feeds \ {idx} : feeds'[i] = feeds[i] ]_vars
  /\ [][ ~IsRestart =>
          \A i \in DOMAIN feeds :
             /\ feeds[i].etag # "" => feeds'[i].etag # ""
             /\ feeds[i].modified # "" => feeds'[i].modified # "" ]_vars

\* C12 witness: a 200 response came back for a feed that holds both
\* validators, with another ETag and without Last-Modified.
C12_Witness ==
  /\ pc = "response"
  /\ r = [status_code |-> 200, etag |-> "e2", modified |-> Absent]
  /\ feeds[idx].etag = "e1"
  /\ feeds[idx].modified = "m1"

\* The columns of the DataFrame _initDataFrame creates (lines 31-38).
BuiltIn == {"source", "id", "title", "published", "author", "link"}

\* The tags of a row: its cells outside the built-in columns.
TagsOf(row) == DOMAIN row \ BuiltIn

\* The columns of a DataFrame: pd.concat adds the columns of the new row.
Columns(d) == BuiltIn \cup UNION {DOMAIN d[i] : i \in DOMAIN d}

\* C13: every entry that is new and whose time converts is stored, whether
\* or not a keyword matches its title; the tags of its row are the keywords
\* matched in its title, and every tag holds the one compound score of the
\* title.
C13_Tagging ==
  [][ (pc = "entries" /\ ~IsRestart) =>
        LET entry == Head(pending)
            row == df'[Len(df')]
        IN /\ (IsNew(df, feeds[idx].url, entry)
                 /\ ~MktimeRaises(entry.published_parsed)) => Len(df') = Len(df) + 1
           /\ Len(df') > Len(df) =>
                /\ TagsOf(row) = _findCoinsInSentence(entry.title)
                /\ \A k \in TagsOf(row) : row[k] = polarity_scores(entry.title) ]_vars

\* C14: the keyword columns of the store are the keywords matched by the
\* titles of the stored entries, and a row has a cell in a keyword column
\* exactly when its entry matched the keyword (a score of 0 is a cell).
C14_SparseColumns ==
  /\ Columns(df) \ BuiltIn =
        UNION {_findCoinsInSentence(df[i]["title"]) : i \in DOMAIN df}
  /\ \A i \in DOMAIN df : \A k \in DOMAIN keywords :
        k \in TagsOf(df[i]) <=> k \in _findCoinsInSentence(df[i]["title"])

\* A letter or a digit.
IsAlnum(c) == Fold(c) \in Range(LowerCase) \/ c \in Digits

\* The word occurs in the sentence, letter for letter up to case, with a
\* character that is no letter and no digit, or an end of the sentence, on
\* each side.
OccursAsWholeWord(sentence, word) ==
  LET s == Chars(sentence)
      w == Chars(word)
  IN \E o \in 0..(Len(s) - Len(w)) :
        /\ o = 0 \/ ~IsAlnum(s[o])
        /\ \A j \in 1..Len(w) : Fold(s[o + j]) = Fold(w[j])
        /\ o + Len(w) = Len(s) \/ ~IsAlnum(s[o + Len(w) + 1])

\* C15: when an entry is stored, the keywords _findCoinsInSentence returned
\* for its title are those that occur in the title as a whole word,
\* themselves or by one of their aliases.
C15_WholeWordMatch ==
  [][ (pc = "entries" /\ Len(df') > Len(df)) =>
        LET title == Head(pending).title
        IN _findCoinsInSentence(title) =
             { k \in DOMAIN keywords :
                 \/ OccursAsWholeWord(title, k)
                 \/ \E t \in DOMAIN keywords[k] :
                       OccursAsWholeWord(title, keywords[k][t]) } ]_vars

\* C16: the time scrape sleeps after a pass is the interval less the time
\* the pass took, and zero when the pass took the interval or longer: 550
\* seconds after a pass of 50 seconds under an interval of 600.
C16_DriftCorrection ==
  pc = "sleep" =>
    /\ time_delay >= 0
    /\ time_delay = (IF elapsed < interval THEN interval - elapsed ELSE 0)
    /\ (interval = 600 /\ elapsed = 50) => time_delay = 550
    /\ elapsed > interval => time_delay = 0

\* C16 witness: the scraper sleeps 550 seconds after a pass of 50 seconds
\* that stored rows.
C16_Witness ==
  /\ pc = "sleep"
  /\ interval = 600
  /\ elapsed = 50
  /\ time_delay = 550
  /\ df # <<>>

\* The places of a pass, and how far each is from the end of its feed.
PassPlaces == {"fetch", "response", "entries", "flush"}
Rank(place) ==
  CASE place = "fetch" -> 3
    [] place = "response" -> 2
    [] place = "entries" -> 1
    [] place = "flush" -> 0

\* What is left of the pass: feeds, places of the feed, entries.
Remaining(i, place, entries) == <<Len(feeds) - i, Rank(place), Len(entries)>>

LexLess(a, b) ==
  \/ a[1] < b[1]
  \/ a[1] = b[1] /\ a[2] < b[2]
  \/ a[1] = b[1] /\ a[2] = b[2] /\ a[3] < b[3]

\* C17: scrape returns only when no interval is given and sleeps only when
\* one is; when it returns or sleeps every feed was requested once, in
\* the order of the list, as within a pass the feeds up to the current one
\* were; every step of a pass leaves less of the pass to do, so that a
\* pass ends; after scrape returned the process does nothing more, and
\* after a sleep the next pass starts at the first feed.
C17_PassSchedule ==
  /\ [](pc = "done" => interval = None /\ time_delay = 0)
  /\ [](pc = "sleep" => interval # None)
  /\ [](pc \in {"done", "sleep"} => fetched = [i \in DOMAIN feeds |-> i])
  /\ [](pc \in PassPlaces =>
          /\ fetched = [i \in 1..Len(fetched) |-> i]
          /\ Len(fetched) = IF pc = "fetch" THEN idx - 1 ELSE idx)
  /\ [][ (pc \in PassPlaces /\ pc' \in PassPlaces /\ ~IsRestart) =>
          LexLess(Remaining(idx', pc', pending'), Remaining(idx, pc, pending)) ]_vars
  /\ [][ (pc = "flush" /\ idx = Len(feeds) /\ ~IsRestart /\ pc' # "failed") =>
          pc' = IF interval = None THEN "done" ELSE "sleep" ]_vars
  /\ [][pc = "done" => IsRestart]_vars
  /\ [][ (pc = "sleep" /\ ~IsRestart) =>
          pc' = "fetch" /\ idx' = 1 /\ fetched' = <<>> /\ interval' = interval ]_vars

\* C17 witness: scrape without interval returned after one pass over both
\* feeds that stored rows and logged no failure.
C17_Witness ==
  /\ pc = "done"
  /\ interval = None
  /\ fetched = <<1, 2>>
  /\ failures = {}
  /\ ~update_db
  /\ Len(df) = 2

\* Seconds in a unit of an interval string.
UnitSeconds(unit) ==
  CASE unit = "s" -> 1
    [] unit = "m" -> 60
    [] unit = "h" -> 3600
    [] unit = "d" -> 86400

\* C18: scrape called with a string whose last character is no unit or
\* whose magnitude is no integer, the empty string among them, fails with
\* the ValueError of _calc_interval before any feed is requested and before
\* the store or its file is written, and does nothing after; called with a
\* valid string it starts the first pass with the magnitude times the
\* seconds of the unit as interval.
C18_IntervalStrings ==
  /\ [][ (pc = "calc" /\ arg.type = "str" /\ ~IsRestart) =>
          LET cs == arg.str
              unitOk == cs # <<>> /\ cs[Len(cs)] \in {"s", "m", "h", "d"}
              magnitude == SubSeq(cs, 1, Len(cs) - 1)
          IN IF unitOk /\ IsIntLiteral(magnitude)
             THEN /\ pc' = "fetch"
                  /\ interval' = IntValue(magnitude) * UnitSeconds(cs[Len(cs)])
             ELSE /\ pc' = "ValueError"
                  /\ fetched' = <<>>
                  /\ df' = df
                  /\ disk' = disk ]_vars
  /\ [][ (pc = "ValueError" \/ pc = "IndexError") => IsRestart ]_vars

\* C19: a new process starts with an empty store only when there is no
\* file at the store path and with the rows of the file when the file can
\* be read; when the file cannot be parsed the construction fails, so that
\* no pass ever runs beside such a file, and the file stays as it is.
C19_LoadOrFail ==
  /\ [][ IsRestart =>
          /\ disk' = disk
          /\ disk.kind = "none" => pc' = "ready" /\ df' = <<>>
          /\ disk.kind = "ok" => pc' = "ready" /\ df' = disk.rows /\ df' # <<>>
          /\ disk.kind = "corrupt" => pc' = "fatal" ]_vars
  /\ [](disk.kind = "corrupt" => (pc = "failed" \/ pc = "fatal"))
  /\ [][ pc = "fatal" => pc' = "fatal" /\ disk' = disk ]_vars

\* C19 witness: a process was started on a file that cannot be parsed.
C19_Witness == pc = "fatal" /\ disk = Corrupt /\ df = <<>> /\ ~update_db

\* C20: whatever the keyword index, the row stored for an entry holds the
\* url of the feed as source and the id and the title of the entry, and
\* every stored row keeps the source and the id it was made from.
C20_BuiltInFieldsKept ==
  /\ [][ (pc = "entries" /\ Len(df') > Len(df)) =>
          LET entry == Head(pending)
              row == df'[Len(df')]
          IN /\ row["source"] = feeds[idx].url
             /\ row["id"] = entry.id
             /\ row["title"] = entry.title ]_vars
  /\ [](\A k \in DOMAIN df :
          df[k]["source"] = origin[k].url /\ df[k]["id"] = origin[k].id)

====
